---------------------------- MODULE Spec2Model ----------------------------
(***************************************************************************)
(* A model of drift (github.com/metagram-net/drift): the migration engine  *)
(* of drift.go, the database objects of templates/init.sql and the         *)
(* process shell of cmd/drift.                                             *)
(*                                                                         *)
(* Strings are sequences of one-character strings, so that the regular     *)
(* expressions of drift.go (reFilename, reNoTxComment) and the number      *)
(* parsing are computed on the characters, as the code computes them.      *)
(* A file's content is a record: `text' is the text drift itself looks at  *)
(* (the comment lines), `sql' names what the statements do when the        *)
(* database executes them, which drift treats as opaque.                   *)
(***************************************************************************)
EXTENDS Integers, Sequences, FiniteSets, TLC

VARIABLES
    dir,          \* the migrations directory: file name -> content
    tableExists,  \* schema_migrations and _drift_claim_migration exist
    ledger,       \* committed rows of schema_migrations, in insertion order
    effects,      \* ID -> how many times that migration's body was committed
    pc,           \* per invocation: where Migrate / apply stands
    upto,         \* per invocation: the ceiling ({}: nil, {u}: upto = u)
    records,      \* per invocation: the IDs applied() returned
    needed,       \* per invocation: diff(records, files)
    idx,          \* per invocation: the loop position in needed
    tx,           \* per invocation: the open transaction of apply
    err,          \* per invocation: the error Migrate returned
    ctxDone,      \* per invocation: the context was cancelled (interrupt)
    attempted,    \* history: the IDs apply was called with, in order
    finished,     \* history: the IDs for which apply returned nil, in order
    inflight,     \* history: the IDs whose apply has begun and not returned
    txBegun,      \* history: the IDs for which apply called db.BeginTx
    claimCalls,   \* history: the IDs for which apply called claim
    sawTable,     \* history: what the ledger query of applied() met
    succBefore,   \* history: the invocations that had returned nil at the start
    arg,          \* checks of a function on its own: the input
    res,          \* checks of a function on its own: <<>>, or <<result>>
    call,         \* per file command (new, setup, renumber): its progress
    dirAt,        \* history: the directory as the command's scan found it
    fsOps         \* history: the file system changes the command made

dbvars == <<tableExists, ledger, effects>>
procvars == <<pc, upto, records, needed, idx, tx, err, ctxDone>>
histvars ==
    <<attempted, finished, inflight, txBegun, claimCalls, sawTable, succBefore>>
purevars == <<arg, res>>
filevars == <<call, dirAt, fsOps>>
vars == <<dir, dbvars, procvars, histvars, purevars, filevars>>

-----------------------------------------------------------------------------
(* Bounds of the model. *)

\* The largest number of entries the migrations directory holds.
MaxFiles == 3

\* The largest number of lines of a content skipTx is applied to.
MaxLines == 2

\* The largest ID and the largest width filename is applied to.
MaxID == 12
MaxWidth == 3

\* The concurrent Migrate invocations (processes) against one database.
Procs == {"p1", "p2"}

\* The file commands (processes) working on one migrations directory.
Callers == {"c1", "c2"}

None == "none"

-----------------------------------------------------------------------------
(* Characters and strings. *)

Digits == <<"0", "1", "2", "3", "4", "5", "6", "7", "8", "9">>

IsDigit(c) == \E i \in 1..Len(Digits) : Digits[i] = c

DigitVal(c) == (CHOOSE i \in 1..Len(Digits) : Digits[i] = c) - 1

\* s[from..] starts with the literal lit.
HasPrefixAt(s, from, lit) ==
    /\ from + Len(lit) - 1 <= Len(s)
    /\ \A k \in 1..Len(lit) : s[from + k - 1] = lit[k]

-----------------------------------------------------------------------------
(* MigrationID.Set / mustID: strconv.ParseInt(s, 10, 64) of a digit string. *)

RECURSIVE ParseInt(_)
ParseInt(s) ==
    IF Len(s) = 0 THEN 0
    ELSE 10 * ParseInt(SubSeq(s, 1, Len(s) - 1)) + DigitVal(s[Len(s)])

mustID(s) == ParseInt(s)

-----------------------------------------------------------------------------
(* reFilename: start, digits (id), "-", any characters (slug), ".sql", end. *)

SqlSuffix == <<".", "s", "q", "l">>

\* The length of the longest run of digits the name starts with.
RECURSIVE DigitRun(_, _)
DigitRun(name, n) ==
    IF n < Len(name) /\ IsDigit(name[n + 1]) THEN DigitRun(name, n + 1) ELSE n

\* The digits are followed by "-", so they can only match the whole leading
\* digit run; the slug then takes everything up to the final ".sql".
\* Outside single-line mode "any character" is any character but the line
\* feed, and the end anchor is the end of the text.
reFilenameMatches(name) ==
    LET d == DigitRun(name, 0) IN
    /\ d >= 1
    /\ Len(name) >= d + 1 + Len(SqlSuffix)
    /\ name[d + 1] = "-"
    /\ HasPrefixAt(name, Len(name) - Len(SqlSuffix) + 1, SqlSuffix)
    /\ \A k \in (d + 2)..(Len(name) - Len(SqlSuffix)) : name[k] # "\n"

SubmatchId(name) == SubSeq(name, 1, DigitRun(name, 0))

SubmatchSlug(name) ==
    SubSeq(name, DigitRun(name, 0) + 2, Len(name) - Len(SqlSuffix))

-----------------------------------------------------------------------------
(* reNoTxComment: multi-line mode, line start, then the literal; skipTx.   *)

Directive ==
    <<"-", "-", "d", "r", "i", "f", "t", ":", "n", "o", "-",
      "t", "r", "a", "n", "s", "a", "c", "t", "i", "o", "n">>

\* In multi-line mode the anchor matches at the start of the text and after every line feed.
LineStart(text, i) == i = 1 \/ text[i - 1] = "\n"

skipTxAnywhere(text) ==
    \E i \in 1..Len(text) : HasPrefixAt(text, i, Directive)

skipTx(text) ==
    \E i \in 1..Len(text) : LineStart(text, i) /\ HasPrefixAt(text, i, Directive)

-----------------------------------------------------------------------------
(* String order: os.ReadDir returns the entries sorted by file name, and Go *)
(* compares strings byte by byte.                                           *)

\* The characters the model's strings use, in ASCII order.
Alphabet ==
    <<"\n", " ", "-", ".", "0", "1", "2", "3", "4", "5", "6", "7", "8", "9",
      ":", "_", "a", "b", "c", "d", "e", "f", "g", "h", "i", "j", "k", "l",
      "m", "n", "o", "p", "q", "r", "s", "t", "u", "v", "w", "x", "y", "z">>

CharCode(c) == CHOOSE i \in 1..Len(Alphabet) : Alphabet[i] = c

RECURSIVE StrLess(_, _)
StrLess(a, b) ==
    IF Len(b) = 0 THEN FALSE
    ELSE IF Len(a) = 0 THEN TRUE
    ELSE IF a[1] = b[1] THEN StrLess(Tail(a), Tail(b))
    ELSE CharCode(a[1]) < CharCode(b[1])

\* The names of a directory in the order os.ReadDir lists them.
RECURSIVE ReadDir(_)
ReadDir(names) ==
    IF names = {} THEN <<>>
    ELSE LET first == CHOOSE n \in names : \A m \in names \ {n} : StrLess(n, m)
         IN <<first>> \o ReadDir(names \ {first})

-----------------------------------------------------------------------------
(* The files and contents the model's directories are drawn from. *)

NameInit == <<"0", "-", "i", "n", "i", "t", ".", "s", "q", "l">>
NameA == <<"1", "-", "a", ".", "s", "q", "l">>
NameB == <<"0", "1", "-", "b", ".", "s", "q", "l">>
NameC == <<"2", "-", "c", ".", "s", "q", "l">>
NameD == <<"1", "0", "-", "d", ".", "s", "q", "l">>
NameNotes == <<"n", "o", "t", "e", "s", ".", "t", "x", "t">>

NamePool == {NameInit, NameA, NameB, NameC, NameD, NameNotes}

\* templates/init.sql: a comment, the directive on a line of its own, then
\* begin; create table; create function; claim (0, 'init'); commit.
initContent == [text |-> <<"\n">> \o Directive \o <<"\n">>, sql |-> "init"]

\* A migration that runs in drift's transaction and succeeds.
ContentDDL == [text |-> <<>>, sql |-> "ddl"]
\* A migration that runs in drift's transaction and whose SQL fails.
ContentBad == [text |-> <<>>, sql |-> "bad"]
\* A migration with the directive, whose SQL does not record its own ID.
ContentNoTx == [text |-> Directive \o <<"\n">>, sql |-> "ddl"]

\* What each file of the pool holds.
ContentsFor(name) ==
    IF name = NameInit THEN {initContent}
    ELSE IF name = NameA THEN {ContentDDL, ContentBad}
    ELSE IF name = NameB THEN {ContentNoTx}
    ELSE IF name = NameC THEN {ContentDDL, ContentBad, ContentNoTx}
    ELSE {ContentDDL}

ValidDirectory(d) == \A n \in DOMAIN d : d[n] \in ContentsFor(n)

\* The directories of at most MaxFiles entries.
Directories ==
    LET sized == {s \in SUBSET NamePool : Cardinality(s) <= MaxFiles}
        any(names) == [names -> UNION {ContentsFor(n) : n \in names}]
    IN UNION { {d \in any(names) : ValidDirectory(d)} : names \in sized }

-----------------------------------------------------------------------------
(* available: list the directory, parse the names, reject duplicate IDs.    *)

migrationFile(d, name) ==
    [Name |-> name,
     Content |-> d[name],
     ID |-> mustID(SubmatchId(name)),
     Slug |-> SubmatchSlug(name),
     idRaw |-> SubmatchId(name)]

RECURSIVE ParseListing(_, _)
ParseListing(d, listing) ==
    IF Len(listing) = 0 THEN <<>>
    ELSE IF reFilenameMatches(Head(listing))
         THEN <<migrationFile(d, Head(listing))>> \o ParseListing(d, Tail(listing))
         ELSE ParseListing(d, Tail(listing))

\* The seen-map loop: some file's ID was already seen in an earlier file.
HasDuplicateID(ms) ==
    \E i, j \in 1..Len(ms) : i < j /\ ms[i].ID = ms[j].ID

availableNoDupCheck(d, listFails) ==
    IF listFails THEN [err |-> "list", files |-> <<>>]
    ELSE [err |-> None, files |-> ParseListing(d, ReadDir(DOMAIN d))]

available(d, listFails) ==
    IF listFails THEN [err |-> "list", files |-> <<>>]
    ELSE LET ms == ParseListing(d, ReadDir(DOMAIN d)) IN
         IF HasDuplicateID(ms) THEN [err |-> "ErrDuplicateID", files |-> <<>>]
         ELSE [err |-> None, files |-> ms]

-----------------------------------------------------------------------------
(* diff: the files whose ID is not among the applied records, sorted by ID. *)

RECURSIVE FilterSkip(_, _)
FilterSkip(skip, files) ==
    IF Len(files) = 0 THEN <<>>
    ELSE IF Head(files).ID \in skip THEN FilterSkip(skip, Tail(files))
         ELSE <<Head(files)>> \o FilterSkip(skip, Tail(files))

\* Insert f into the ID-sorted sequence s.
RECURSIVE InsertByID(_, _)
InsertByID(f, s) ==
    IF Len(s) = 0 THEN <<f>>
    ELSE IF f.ID < Head(s).ID THEN <<f>> \o s
         ELSE <<Head(s)>> \o InsertByID(f, Tail(s))

RECURSIVE SortByID(_)
SortByID(s) ==
    IF Len(s) = 0 THEN <<>>
    ELSE InsertByID(Head(s), SortByID(Tail(s)))

RecordIDs(rows) == {rows[i].id : i \in 1..Len(rows)}

diffUnsorted(applied, files) == FilterSkip(RecordIDs(applied), files)

diffKeepApplied(applied, files) == SortByID(files)

diff(applied, files) == SortByID(FilterSkip(RecordIDs(applied), files))

-----------------------------------------------------------------------------
(* Naming: MigrationID.Width, idWidth, filename, slugify.                   *)

\* fmt.Sprintf("%d", n) of a non-negative n.
RECURSIVE FormatInt(_)
FormatInt(n) ==
    IF n < 10 THEN <<Digits[n + 1]>>
    ELSE FormatInt(n \div 10) \o <<Digits[(n % 10) + 1]>>

\* MigrationID.Width: the length of the decimal form.
Width(id) == Len(FormatInt(id))

\* The zero flag with a width: zeroes in front up to the width, and nothing
\* cut when the digits are more than the width.
RECURSIVE ZeroPad(_, _)
ZeroPad(s, w) == IF Len(s) >= w THEN s ELSE ZeroPad(<<"0">> \o s, w)

\* A file name that loses the separator between the ID and the slug.
filenameNoDash(w, id, slug) == ZeroPad(FormatInt(id), w) \o slug \o SqlSuffix

\* filename: Sprintf("%0*d-%s.sql", idWidth, id, slug).
filename(w, id, slug) ==
    ZeroPad(FormatInt(id), w) \o <<"-">> \o slug \o SqlSuffix

\* A width taken from the raw ID strings instead of the IDs.
RECURSIVE idWidthRaw(_)
idWidthRaw(files) ==
    IF Len(files) = 0 THEN 0
    ELSE LET w == Len(Head(files).idRaw)
             rest == idWidthRaw(Tail(files))
         IN IF w > rest THEN w ELSE rest

\* idWidth: the greatest Width of the files' IDs, 0 without files.
RECURSIVE idWidth(_)
idWidth(files) ==
    IF Len(files) = 0 THEN 0
    ELSE LET w == Width(Head(files).ID)
             rest == idWidth(Tail(files))
         IN IF w > rest THEN w ELSE rest

\* reSeparator: a run of hyphens, white space, dots, underscores, slashes.
IsSeparator(c) == c \in {"-", " ", "\n", "\t", ".", "_", "/"}

\* A NewFile that uses the slug as it was given.
slugifyKeeps(s) == s

\* slugify: every run of separators becomes one underscore.
RECURSIVE slugify(_)
slugify(s) ==
    IF Len(s) = 0 THEN <<>>
    ELSE IF ~IsSeparator(s[1]) THEN <<s[1]>> \o slugify(Tail(s))
    ELSE IF Len(s) > 1 /\ IsSeparator(s[2]) THEN slugify(Tail(s))
    ELSE <<"_">> \o slugify(Tail(s))

-----------------------------------------------------------------------------
(* The database: schema_migrations and _drift_claim_migration (init.sql).   *)

Row(id, slug) == [id |-> id, slug |-> slug]

InitSlug == <<"i", "n", "i", "t">>

\* Insert r into the id-sorted sequence of rows s ("order by id asc").
RECURSIVE InsertRow(_, _)
InsertRow(r, s) ==
    IF Len(s) = 0 THEN <<r>>
    ELSE IF r.id < Head(s).id THEN <<r>> \o s
         ELSE <<Head(s)>> \o InsertRow(r, Tail(s))

RECURSIVE OrderByID(_)
OrderByID(rows) ==
    IF Len(rows) = 0 THEN <<>>
    ELSE InsertRow(Head(rows), OrderByID(Tail(rows)))

\* applied without the undefined_table case: a missing table is an error.
appliedStrict(queryFails) ==
    IF queryFails \/ ~tableExists THEN [err |-> "query", rows |-> <<>>]
    ELSE [err |-> None, rows |-> OrderByID(ledger)]

\* applied: SQLSTATE 42P01 (the table does not exist) gives (nil, nil); any
\* other failure of the query (queryFails) is returned.
applied(queryFails) ==
    IF queryFails THEN [err |-> "query", rows |-> <<>>]
    ELSE IF ~tableExists THEN [err |-> None, rows |-> <<>>]
    ELSE [err |-> None, rows |-> OrderByID(ledger)]

NoTx == [state |-> "none", rows |-> <<>>, body |-> <<>>]

\* Some other invocation's open transaction holds an uncommitted row with
\* this id: the primary key makes a second insert wait for it.
RowLockedByOther(p, id) ==
    \E q \in Procs \ {p} :
        /\ tx[q].state # "none"
        /\ \E i \in 1..Len(tx[q].rows) : tx[q].rows[i].id = id

\* The primary key of schema_migrations: a committed row has this id.
DuplicateKey(id) == \E i \in 1..Len(ledger) : ledger[i].id = id

\* A table without the primary key: no insert is ever refused.
claimFailsNoKey(id) == ~tableExists

\* _drift_claim_migration(id, slug) fails: the function or the table does not
\* exist, or the insert violates the primary key.
claimFails(id) == ~tableExists \/ DuplicateKey(id)

\* The insert waits while another open transaction holds an uncommitted
\* row with the same key.
claimWaits(p, id) == ~claimFails(id) /\ RowLockedByOther(p, id)

RECURSIVE AddEffects(_, _)
AddEffects(e, ids) ==
    IF Len(ids) = 0 THEN e
    ELSE AddEffects([e EXCEPT ![Head(ids)] = @ + 1], Tail(ids))

IDs == {mustID(SubmatchId(n)) : n \in {m \in NamePool : reFilenameMatches(m)}}

\* The values of upto the invocations are started with: nil (the empty set
\* here), or a pointer to an ID (the ID of 1-a.sql, which has files of the
\* pool below, at and above it).
Ceilings == {{}, {mustID(SubmatchId(NameA))}}

-----------------------------------------------------------------------------
(* The initial states: a directory, and a database that is either fresh     *)
(* (no ledger table) or already bootstrapped by the directory's 0-init.sql. *)

FreshDB ==
    /\ tableExists = FALSE
    /\ ledger = <<>>
    /\ effects = [i \in IDs |-> 0]

BootstrappedDB ==
    /\ NameInit \in DOMAIN dir
    /\ tableExists = TRUE
    /\ ledger = <<Row(0, InitSlug)>>
    /\ effects = [i \in IDs |-> IF i = 0 THEN 1 ELSE 0]

PureIdle == arg = <<>> /\ res = <<>>

ProcsIdle ==
    /\ pc = [p \in Procs |-> "idle"]
    /\ upto = [p \in Procs |-> {}]
    /\ records = [p \in Procs |-> <<>>]
    /\ needed = [p \in Procs |-> <<>>]
    /\ idx = [p \in Procs |-> 1]
    /\ tx = [p \in Procs |-> NoTx]
    /\ err = [p \in Procs |-> None]
    /\ ctxDone = [p \in Procs |-> FALSE]
    /\ attempted = [p \in Procs |-> <<>>]
    /\ finished = [p \in Procs |-> <<>>]
    /\ inflight = [p \in Procs |-> {}]
    /\ txBegun = [p \in Procs |-> {}]
    /\ claimCalls = [p \in Procs |-> {}]
    /\ sawTable = [p \in Procs |-> "unread"]
    /\ succBefore = [p \in Procs |-> {}]

\* A file command that has not started. id is the ID given (-1: unset), ts
\* the clock value read, chosen the ID used, slug the slug given, name the
\* file name computed.
NoCall ==
    [op |-> "none", pc |-> "idle", err |-> None, id |-> -1, ts |-> 0,
     chosen |-> -1, slug |-> <<>>, name |-> <<>>, tmpl |-> "default",
     write |-> FALSE, width |-> 0, renames |-> <<>>, k |-> 1]

FilesIdle ==
    /\ call = [c \in Callers |-> NoCall]
    /\ dirAt = [c \in Callers |-> <<>>]
    /\ fsOps = [c \in Callers |-> <<>>]

Init ==
    /\ dir \in Directories
    /\ FreshDB \/ BootstrappedDB
    /\ ProcsIdle
    /\ PureIdle
    /\ FilesIdle

-----------------------------------------------------------------------------
(* Migrate. *)

\* The file the loop of Migrate stands at.
Cur(p) == needed[p][idx[p]]

\* The invocations are named in the order they start.
StartsInOrder(p) == p = "p1" \/ pc["p1"] # "idle"

\* Migrate, up to the loop: applied, available, diff. An error of applied or
\* available is returned, wrapped.
MigrateBegin(p) ==
    /\ pc[p] = "idle"
    /\ StartsInOrder(p)
    /\ succBefore' = [succBefore EXCEPT ![p] = {q \in Procs : pc[q] = "done"}]
    /\ \E u \in Ceilings, queryFails \in BOOLEAN, listFails \in BOOLEAN :
        LET a == applied(queryFails)
            v == available(dir, listFails)
        IN /\ upto' = [upto EXCEPT ![p] = u]
           /\ sawTable' = [sawTable EXCEPT ![p] =
                             IF queryFails THEN "error"
                             ELSE IF tableExists THEN "present" ELSE "missing"]
           /\ IF a.err # None
              THEN /\ pc' = [pc EXCEPT ![p] = "failed"]
                   /\ err' = [err EXCEPT ![p] = "could not get applied migrations"]
                   /\ UNCHANGED <<records, needed>>
              ELSE IF v.err # None
              THEN /\ pc' = [pc EXCEPT ![p] = "failed"]
                   /\ err' = [err EXCEPT ![p] = v.err]
                   /\ UNCHANGED <<records, needed>>
              ELSE /\ records' = [records EXCEPT ![p] = a.rows]
                   /\ needed' = [needed EXCEPT ![p] = diff(a.rows, v.files)]
                   /\ pc' = [pc EXCEPT ![p] = "loop"]
                   /\ UNCHANGED err
    /\ UNCHANGED <<dir, dbvars, idx, tx, ctxDone, attempted, finished, inflight,
                   txBegun, claimCalls, purevars, filevars>>

\* The loop without the ceiling test.
SkipsUptoNever(p, f) == FALSE

\* The ceiling test of the loop.
SkipsUpto(p, f) == \E u \in upto[p] : f.ID > u

\* The range loop ends: "All migrations applied!", return nil.
MigrateDone(p) ==
    /\ pc[p] = "loop"
    /\ idx[p] > Len(needed[p])
    /\ pc' = [pc EXCEPT ![p] = "done"]
    /\ UNCHANGED <<dir, dbvars, upto, records, needed, idx, tx, err, ctxDone,
                   histvars, purevars, filevars>>

\* One iteration skipped because of upto.
MigrateSkip(p) ==
    /\ pc[p] = "loop"
    /\ idx[p] <= Len(needed[p])
    /\ SkipsUpto(p, Cur(p))
    /\ idx' = [idx EXCEPT ![p] = @ + 1]
    /\ UNCHANGED <<dir, dbvars, pc, upto, records, needed, tx, err, ctxDone,
                   histvars, purevars, filevars>>

\* A loop that logs the error of apply and goes on with the next file.
MigrateIgnoresApplyError(p, e) ==
    /\ pc' = [pc EXCEPT ![p] = "loop"]
    /\ idx' = [idx EXCEPT ![p] = @ + 1]
    /\ tx' = [tx EXCEPT ![p] = NoTx]
    /\ inflight' = [inflight EXCEPT ![p] = @ \ {Cur(p).ID}]
    /\ UNCHANGED <<err, finished>>

\* A loop that calls apply again for the file whose apply failed.
MigrateRetriesOnApplyError(p, e) ==
    /\ pc' = [pc EXCEPT ![p] = "loop"]
    /\ tx' = [tx EXCEPT ![p] = NoTx]
    /\ inflight' = [inflight EXCEPT ![p] = @ \ {Cur(p).ID}]
    /\ UNCHANGED <<idx, err, finished>>

\* apply returned the error e: Migrate returns it at once. apply neither
\* commits nor rolls back the transaction it had begun: it stays open, holds
\* what it inserted, and never commits.
MigrateOnApplyError(p, e) ==
    /\ pc' = [pc EXCEPT ![p] = "failed"]
    /\ err' = [err EXCEPT ![p] = e]
    /\ tx' = [tx EXCEPT ![p] =
                IF @.state = "none" THEN @ ELSE [@ EXCEPT !.state = "aborted"]]
    /\ inflight' = [inflight EXCEPT ![p] = @ \ {Cur(p).ID}]
    /\ UNCHANGED <<idx, finished>>

\* apply returned nil for the current file: the loop moves on.
ApplyReturnsNil(p) ==
    /\ pc' = [pc EXCEPT ![p] = "loop"]
    /\ idx' = [idx EXCEPT ![p] = @ + 1]
    /\ tx' = [tx EXCEPT ![p] = NoTx]
    /\ finished' = [finished EXCEPT ![p] = Append(@, Cur(p).ID)]
    /\ inflight' = [inflight EXCEPT ![p] = @ \ {Cur(p).ID}]
    /\ UNCHANGED err

\* apply treats every file as transactional.
applySkipsTxNever(f) == FALSE

\* The first test of apply.
applySkipsTx(f) == skipTx(f.Content.text)

\* One iteration: apply is called. With the directive it goes on to run the
\* content on the connection; without, db.BeginTx(ctx) opens a transaction,
\* which fails when the context is already cancelled.
ApplyBegin(p) ==
    /\ pc[p] = "loop"
    /\ idx[p] <= Len(needed[p])
    /\ ~SkipsUpto(p, Cur(p))
    /\ attempted' = [attempted EXCEPT ![p] = Append(@, Cur(p).ID)]
    /\ IF applySkipsTx(Cur(p))
       THEN /\ pc' = [pc EXCEPT ![p] = "direct"]
            /\ inflight' = [inflight EXCEPT ![p] = @ \cup {Cur(p).ID}]
            /\ UNCHANGED <<idx, tx, err, finished, txBegun>>
       ELSE /\ txBegun' = [txBegun EXCEPT ![p] = @ \cup {Cur(p).ID}]
            /\ IF ctxDone[p]
               THEN MigrateOnApplyError(p, "context canceled")
               ELSE /\ pc' = [pc EXCEPT ![p] = "claim"]
                    /\ tx' = [tx EXCEPT ![p] = [NoTx EXCEPT !.state = "open"]]
                    /\ inflight' = [inflight EXCEPT ![p] = @ \cup {Cur(p).ID}]
                    /\ UNCHANGED <<idx, err, finished>>
    /\ UNCHANGED <<dir, dbvars, upto, records, needed, ctxDone, claimCalls,
                   sawTable, succBefore, purevars, filevars>>

\* A claim executed on db instead of tx: the row is committed at once.
ClaimInsertOnDB(p, row) ==
    /\ ledger' = Append(ledger, row)
    /\ UNCHANGED tx

\* The insert of _drift_claim_migration runs on tx: the row is part of the
\* transaction and invisible to the others until it commits.
ClaimInsert(p, row) ==
    /\ tx' = [tx EXCEPT ![p].rows = Append(@, row)]
    /\ UNCHANGED ledger

\* claim(ctx, tx, f.ID, f.Slug): select _drift_claim_migration($1, $2).
Claim(p) ==
    /\ pc[p] = "claim"
    /\ ctxDone[p] \/ ~claimWaits(p, Cur(p).ID)
    /\ claimCalls' = [claimCalls EXCEPT ![p] = @ \cup {Cur(p).ID}]
    /\ IF ctxDone[p]
       THEN MigrateOnApplyError(p, "context canceled") /\ UNCHANGED ledger
       ELSE IF claimFails(Cur(p).ID)
       THEN MigrateOnApplyError(p, "claim") /\ UNCHANGED ledger
       ELSE /\ ClaimInsert(p, Row(Cur(p).ID, Cur(p).Slug))
            /\ pc' = [pc EXCEPT ![p] = "run"]
            /\ UNCHANGED <<idx, err, inflight, finished>>
    /\ UNCHANGED <<dir, tableExists, effects, upto, records, needed, ctxDone,
                   attempted, txBegun, sawTable, succBefore, purevars, filevars>>

\* run(ctx, tx, f.Content) inside the transaction.
Run(p) ==
    /\ pc[p] = "run"
    /\ IF ctxDone[p] THEN MigrateOnApplyError(p, "context canceled")
       ELSE IF Cur(p).Content.sql = "bad" THEN MigrateOnApplyError(p, "run")
       ELSE /\ tx' = [tx EXCEPT ![p].body = Append(@, Cur(p).ID)]
            /\ pc' = [pc EXCEPT ![p] = "commit"]
            /\ UNCHANGED <<idx, err, inflight, finished>>
    /\ UNCHANGED <<dir, dbvars, upto, records, needed, ctxDone, attempted,
                   txBegun, claimCalls, sawTable, succBefore, purevars, filevars>>

\* A transaction begun without the context: Commit does not see the
\* cancellation.
CommitIgnoresCtx(p) ==
    /\ pc[p] = "commit"
    /\ ledger' = ledger \o tx[p].rows
    /\ effects' = AddEffects(effects, tx[p].body)
    /\ ApplyReturnsNil(p)
    /\ UNCHANGED <<dir, tableExists, upto, records, needed, ctxDone, attempted,
                   txBegun, claimCalls, sawTable, succBefore, purevars, filevars>>

\* A commit that writes the claimed row a second time.
CommitClaimsTwice(p) ==
    /\ pc[p] = "commit"
    /\ IF ctxDone[p]
       THEN /\ MigrateOnApplyError(p, "context canceled")
            /\ UNCHANGED dbvars
       ELSE /\ ledger' = ledger \o tx[p].rows \o tx[p].rows
            /\ effects' = AddEffects(effects, tx[p].body)
            /\ ApplyReturnsNil(p)
            /\ UNCHANGED tableExists
    /\ UNCHANGED <<dir, upto, records, needed, ctxDone, attempted, txBegun,
                   claimCalls, sawTable, succBefore, purevars, filevars>>

\* tx.Commit(): the claimed row and the body's effects become visible
\* together. After a cancellation the transaction was rolled back and Commit
\* returns an error.
Commit(p) ==
    /\ pc[p] = "commit"
    /\ IF ctxDone[p]
       THEN /\ MigrateOnApplyError(p, "context canceled")
            /\ UNCHANGED dbvars
       ELSE /\ ledger' = ledger \o tx[p].rows
            /\ effects' = AddEffects(effects, tx[p].body)
            /\ ApplyReturnsNil(p)
            /\ UNCHANGED tableExists
    /\ UNCHANGED <<dir, upto, records, needed, ctxDone, attempted, txBegun,
                   claimCalls, sawTable, succBefore, purevars, filevars>>

\* run(ctx, db, f.Content) for a file with the directive: the content runs
\* on the connection. init.sql wraps its statements in begin/commit, creates
\* the table and the functions and claims (0, 'init') itself.
RunDirect(p) ==
    /\ pc[p] = "direct"
    /\ IF ctxDone[p]
       THEN /\ MigrateOnApplyError(p, "context canceled")
            /\ UNCHANGED dbvars
       ELSE IF Cur(p).Content.sql = "bad"
               \/ (Cur(p).Content.sql = "init" /\ tableExists)
       THEN /\ MigrateOnApplyError(p, "run")
            /\ UNCHANGED dbvars
       ELSE IF Cur(p).Content.sql = "init"
       THEN /\ tableExists' = TRUE
            /\ ledger' = Append(ledger, Row(0, InitSlug))
            /\ effects' = AddEffects(effects, <<Cur(p).ID>>)
            /\ ApplyReturnsNil(p)
       ELSE /\ effects' = AddEffects(effects, <<Cur(p).ID>>)
            /\ ApplyReturnsNil(p)
            /\ UNCHANGED <<tableExists, ledger>>
    /\ UNCHANGED <<dir, upto, records, needed, ctxDone, attempted, txBegun,
                   claimCalls, sawTable, succBefore, purevars, filevars>>

\* main: an interrupt signal cancels the context of the running command.
Interrupt(p) ==
    /\ pc[p] \in {"loop", "claim", "run", "commit", "direct"}
    /\ ~ctxDone[p]
    /\ ctxDone' = [ctxDone EXCEPT ![p] = TRUE]
    /\ UNCHANGED <<dir, dbvars, pc, upto, records, needed, idx, tx, err,
                   histvars, purevars, filevars>>

\* migrateCmd: cli.Exitf ends the process after an error; the connection
\* closes and the database rolls back the transaction apply left open.
Exit(p) ==
    /\ pc[p] = "failed"
    /\ tx[p].state # "none"
    /\ pc' = [pc EXCEPT ![p] = "exited"]
    /\ tx' = [tx EXCEPT ![p] = NoTx]
    /\ UNCHANGED <<dir, dbvars, upto, records, needed, idx, err, ctxDone,
                   histvars, purevars, filevars>>

Next ==
    \E p \in Procs :
        \/ MigrateBegin(p)
        \/ MigrateDone(p)
        \/ MigrateSkip(p)
        \/ ApplyBegin(p)
        \/ Claim(p)
        \/ Run(p)
        \/ Commit(p)
        \/ RunDirect(p)
        \/ Interrupt(p)
        \/ Exit(p)

Spec == Init /\ [][Next]_vars

\* The steps of a started invocation: Migrate is sequential code that runs
\* on once it was called, every database call returns, and the process
\* exits after an error. Starting an invocation and the interrupt are up to
\* the environment.
Proceeds(p) ==
    \/ MigrateDone(p)
    \/ MigrateSkip(p)
    \/ ApplyBegin(p)
    \/ Claim(p)
    \/ Run(p)
    \/ Commit(p)
    \/ RunDirect(p)
    \/ Exit(p)

SpecFair == Spec /\ \A p \in Procs : WF_vars(Proceeds(p))

-----------------------------------------------------------------------------
(* skipTx on its own: the contents it is applied to are made of at most     *)
(* MaxLines lines drawn from LinePool, joined by line feeds.                *)

LinePool ==
    { Directive,
      <<" ">> \o Directive,
      Directive \o <<"s">>,
      <<"x", " ">> \o Directive,
      SubSeq(Directive, 1, Len(Directive) - 1),
      <<"-", "-", "x">>,
      <<>> }

RECURSIVE TextsOfLines(_)
TextsOfLines(n) ==
    IF n = 1 THEN LinePool
    ELSE {t \o <<"\n">> \o l : t \in TextsOfLines(n - 1), l \in LinePool}

Texts == UNION {TextsOfLines(n) : n \in 1..MaxLines}

InitSkipTx ==
    /\ dir = <<>>
    /\ FreshDB
    /\ ProcsIdle
    /\ arg \in Texts
    /\ res = <<>>
    /\ FilesIdle

\* apply's test of one content.
SkipTxApplied ==
    /\ res = <<>>
    /\ res' = <<skipTx(arg)>>
    /\ UNCHANGED <<dir, dbvars, procvars, histvars, arg, filevars>>

NextSkipTx == SkipTxApplied

SpecSkipTx == InitSkipTx /\ [][NextSkipTx]_vars

-----------------------------------------------------------------------------
(* The file commands: NewFile, Setup, Renumber. They work on the directory  *)
(* alone; the directories they start from hold the files of the pool.       *)

PlainContent(name) == IF name = NameInit THEN initContent ELSE ContentDDL

FileDirectories ==
    { [n \in names |-> PlainContent(n)] :
        names \in {s \in SUBSET NamePool : Cardinality(s) <= MaxFiles} }

\* The directories new and setup start from: they leave room for a file.
RoomyDirectories == {d \in FileDirectories : Cardinality(DOMAIN d) < MaxFiles}

\* The IDs new is called with: -1 is newCmd's default (the flag is unset).
GivenIDs == {-1, 0, 10}

\* The values time.Now().Unix() returns.
Times == {2, 10}

\* The slugs new is called with: "init" and "a -b".
GivenSlugs == {InitSlug, <<"a", " ", "-", "b">>}

\* nil (the embedded default template) or the template of a template file.
Templates == {"default", "custom"}

\* What tmpl.Execute writes, and what a failed write leaves in the file.
Rendered(tmpl) == [text |-> <<>>, sql |-> tmpl]
PartialContent == [text |-> <<>>, sql |-> "partial"]

\* The directory after name was created or truncated and written.
Put(d, name, content) ==
    [n \in DOMAIN d \cup {name} |-> IF n = name THEN content ELSE d[n]]

\* os.Rename: the entry moves, replacing what the new name held.
Move(d, from, to) ==
    [n \in (DOMAIN d \ {from}) \cup {to} |-> IF n = to THEN d[from] ELSE d[n]]

Created(d, name) ==
    [kind |-> IF name \in DOMAIN d THEN "truncate" ELSE "create",
     from |-> name, to |-> name]

Failed(c, e) == [c EXCEPT !.pc = "error", !.err = e]

\* A NewFile without the loop over the files.
NewFileDuplicateNever(files, id) == FALSE

\* NewFile: the loop that looks for the ID among the available files.
NewFileDuplicate(files, id) == \E i \in 1..Len(files) : files[i].ID = id

\* NewFile up to the computed path: the ID (the clock when it is unset), the
\* scan of the directory, the duplicate test, the slug and the file name.
NewFileScan(c) ==
    /\ call[c].pc = "idle"
    /\ \E id \in GivenIDs, slug \in GivenSlugs, tmpl \in Templates,
          listFails \in BOOLEAN :
        \E ts \in IF id = -1 THEN Times ELSE {0} :
            LET chosen == IF id = -1 THEN ts ELSE id
                v == available(dir, listFails)
                w == idWidth(v.files)
                base == [NoCall EXCEPT !.op = "new", !.id = id, !.ts = ts,
                                       !.chosen = chosen, !.slug = slug,
                                       !.tmpl = tmpl]
            IN call' = [call EXCEPT ![c] =
                 IF v.err # None THEN Failed(base, v.err)
                 ELSE IF NewFileDuplicate(v.files, chosen)
                 THEN Failed(base, "ErrDuplicateID")
                 ELSE [base EXCEPT !.pc = "scanned",
                                   !.width = w,
                                   !.name = filename(w, chosen, slugify(slug))]]
    /\ dirAt' = [dirAt EXCEPT ![c] = dir]
    /\ UNCHANGED <<dir, dbvars, procvars, histvars, purevars, fsOps>>

\* NewFile's os.OpenFile with O_WRONLY|O_CREATE|O_TRUNC: an existing file
\* is opened and truncated.
OpenFileFails(d, name, openFails) == openFails

\* A NewFile that removes the file when tmpl.Execute fails.
NewFileWriteRemoves(c) ==
    /\ call[c].pc = "scanned"
    /\ \E openFails \in BOOLEAN, execFails \in BOOLEAN :
        IF OpenFileFails(dir, call[c].name, openFails)
        THEN /\ call' = [call EXCEPT ![c] = Failed(@, "open")]
             /\ UNCHANGED <<dir, fsOps>>
        ELSE IF execFails
        THEN /\ dir' = [n \in DOMAIN dir \ {call[c].name} |-> dir[n]]
             /\ call' = [call EXCEPT ![c] = Failed(@, "template")]
             /\ UNCHANGED fsOps
        ELSE /\ dir' = Put(dir, call[c].name, Rendered(call[c].tmpl))
             /\ fsOps' = [fsOps EXCEPT ![c] =
                            Append(@, Created(dir, call[c].name))]
             /\ call' = [call EXCEPT ![c].pc = "ok"]
    /\ UNCHANGED <<dbvars, procvars, histvars, purevars, dirAt>>

\* NewFile from the open on: the file is created or truncated, then
\* tmpl.Execute writes into it; its error is returned with the path and
\* the file stays as far as it was written.
NewFileWrite(c) ==
    /\ call[c].pc = "scanned"
    /\ \E openFails \in BOOLEAN, execFails \in BOOLEAN :
        IF OpenFileFails(dir, call[c].name, openFails)
        THEN /\ call' = [call EXCEPT ![c] = Failed(@, "open")]
             /\ UNCHANGED <<dir, fsOps>>
        ELSE /\ dir' = Put(dir, call[c].name,
                           IF execFails THEN PartialContent
                           ELSE Rendered(call[c].tmpl))
             /\ fsOps' = [fsOps EXCEPT ![c] =
                            Append(@, Created(dir, call[c].name))]
             /\ call' = [call EXCEPT ![c] =
                           IF execFails THEN Failed(@, "template")
                           ELSE [@ EXCEPT !.pc = "ok"]]
    /\ UNCHANGED <<dbvars, procvars, histvars, purevars, dirAt>>

\* Setup's file name: Sprintf("%d-%s.sql", 0, "init").
SetupName == FormatInt(0) \o <<"-">> \o InitSlug \o SqlSuffix

\* A safeWriteFile without O_EXCL.
safeWriteFileTruncates(d, name, openFails) == openFails

\* safeWriteFile's os.OpenFile with O_EXCL: it fails when the path exists.
safeWriteFileFails(d, name, openFails) == openFails \/ name \in DOMAIN d

\* Setup: MkdirAll, then safeWriteFile of the embedded init.sql. A failed
\* Write leaves the file it created.
Setup(c) ==
    /\ call[c].pc = "idle"
    /\ dirAt' = [dirAt EXCEPT ![c] = dir]
    /\ \E mkdirFails \in BOOLEAN, openFails \in BOOLEAN, writeFails \in BOOLEAN :
        LET base == [NoCall EXCEPT !.op = "setup", !.name = SetupName] IN
        IF mkdirFails
        THEN /\ call' = [call EXCEPT ![c] = Failed(base, "mkdir")]
             /\ UNCHANGED <<dir, fsOps>>
        ELSE IF safeWriteFileFails(dir, SetupName, openFails)
        THEN /\ call' = [call EXCEPT ![c] = Failed(base, "open")]
             /\ UNCHANGED <<dir, fsOps>>
        ELSE /\ dir' = Put(dir, SetupName,
                           IF writeFails THEN PartialContent ELSE initContent)
             /\ fsOps' = [fsOps EXCEPT ![c] = Append(@, Created(dir, SetupName))]
             /\ call' = [call EXCEPT ![c] =
                           IF writeFails THEN Failed(base, "write")
                           ELSE [base EXCEPT !.pc = "ok"]]
    /\ UNCHANGED <<dbvars, procvars, histvars, purevars>>

InitNew ==
    /\ dir \in RoomyDirectories
    /\ FreshDB
    /\ ProcsIdle
    /\ PureIdle
    /\ FilesIdle

NextNew ==
    \E c \in Callers :
        \/ NewFileScan(c)
        \/ NewFileWrite(c)
        \/ Setup(c)

SpecNew == InitNew /\ [][NextNew]_vars

-----------------------------------------------------------------------------
(* Renumber. *)

\* A test on the width of the ID instead of the width of the raw string.
NeedsRenameByID(f, width) == Width(f.ID) # width

\* The test of the first loop: the raw ID string has another length.
NeedsRename(f, width) == Len(f.idRaw) # width

\* A rename that keeps the ID and drops the slug.
RenameToNoSlug(f, width) == filename(width, f.ID, <<>>)

\* The name a file is renamed to.
RenameTo(f, width) == filename(width, f.ID, f.Slug)

\* The first loop of Renumber: the renames, in the order of the files.
RECURSIVE Renames(_, _)
Renames(files, width) ==
    IF Len(files) = 0 THEN <<>>
    ELSE IF NeedsRename(Head(files), width)
         THEN <<[from |-> Head(files).Name, to |-> RenameTo(Head(files), width)]>>
              \o Renames(Tail(files), width)
         ELSE Renames(Tail(files), width)

\* A Renumber that renames whatever write says.
SkipsRenamesNever(write) == FALSE

\* "Skipping renames because write is off".
SkipsRenames(write) == ~write

\* Renumber up to the second loop: the scan, the width, the renames; it
\* returns nil when there is none ("Nothing to do.") or write is off.
RenumberScan(c) ==
    /\ call[c].pc = "idle"
    /\ dirAt' = [dirAt EXCEPT ![c] = dir]
    /\ \E write \in BOOLEAN, listFails \in BOOLEAN :
        LET v == available(dir, listFails)
            w == idWidth(v.files)
            rs == Renames(v.files, w)
            base == [NoCall EXCEPT !.op = "renumber", !.write = write]
        IN call' = [call EXCEPT ![c] =
             IF v.err # None THEN Failed(base, v.err)
             ELSE IF Len(rs) = 0 THEN [base EXCEPT !.pc = "ok", !.width = w]
             ELSE IF SkipsRenames(write)
             THEN [base EXCEPT !.pc = "ok", !.width = w, !.renames = rs]
             ELSE [base EXCEPT !.pc = "renaming", !.width = w, !.renames = rs]]
    /\ UNCHANGED <<dir, dbvars, procvars, histvars, purevars, fsOps>>

\* One turn of the second loop: os.Rename(old, new); its error is returned
\* with the renames done so far in place.
RenumberRename(c) ==
    /\ call[c].pc = "renaming"
    /\ LET r == call[c].renames[call[c].k] IN
       \E renameFails \in BOOLEAN :
        IF renameFails \/ r.from \notin DOMAIN dir
        THEN /\ call' = [call EXCEPT ![c] = Failed(@, "rename")]
             /\ UNCHANGED <<dir, fsOps>>
        ELSE /\ dir' = Move(dir, r.from, r.to)
             /\ fsOps' = [fsOps EXCEPT ![c] =
                    Append(@, [kind |-> "rename", from |-> r.from, to |-> r.to])]
             /\ call' = [call EXCEPT ![c] =
                    IF @.k = Len(@.renames) THEN [@ EXCEPT !.pc = "ok", !.k = @ + 1]
                    ELSE [@ EXCEPT !.k = @ + 1]]
    /\ UNCHANGED <<dbvars, procvars, histvars, purevars, dirAt>>

InitRenumber ==
    /\ dir \in FileDirectories
    /\ FreshDB
    /\ ProcsIdle
    /\ PureIdle
    /\ FilesIdle

NextRenumber ==
    \E c \in Callers :
        \/ RenumberScan(c)
        \/ RenumberRename(c)

SpecRenumber == InitRenumber /\ [][NextRenumber]_vars

-----------------------------------------------------------------------------
(* filename on its own: the name is built for an ID, a width and a slug,    *)
(* and the name is what available then parses.                              *)

\* Slugs: plain, empty, with the separator, ending like a file name,
\* beginning with digits, and with a line feed.
SlugPool ==
    { <<"a">>, <<>>, <<"a", "-", "b">>, <<"x", ".", "s", "q", "l">>,
      <<"1", "-", "a">>, <<"a", "\n", "b">> }

InitFilename ==
    /\ dir = <<>>
    /\ FreshDB
    /\ ProcsIdle
    /\ FilesIdle
    /\ arg \in {<<w, id, slug>> : w \in 0..MaxWidth, id \in 0..MaxID,
                                   slug \in SlugPool}
    /\ res = <<>>

FilenameApplied ==
    /\ res = <<>>
    /\ res' = <<filename(arg[1], arg[2], arg[3])>>
    /\ UNCHANGED <<dir, dbvars, procvars, histvars, arg, filevars>>

NextFilename == FilenameApplied

SpecFilename == InitFilename /\ [][NextFilename]_vars

-----------------------------------------------------------------------------
(* Vocabulary of the properties, stated on the directory and the database   *)
(* and not through the operators of Migrate.                                *)

Range(seq) == {seq[i] : i \in 1..Len(seq)}

\* The names of the pool that are migration file names, and their IDs.
MigrationNames == {n \in NamePool : reFilenameMatches(n)}

IDOfName == [n \in MigrationNames |-> mustID(SubmatchId(n))]

\* The migration files of the directory.
FileNames == DOMAIN dir \cap MigrationNames

FileID(n) == IDOfName[n]

\* The lines of a text: the pieces between its line feeds.
RECURSIVE LinesOf(_)
LinesOf(text) ==
    IF \A i \in 1..Len(text) : text[i] # "\n" THEN {text}
    ELSE LET k == CHOOSE i \in 1..Len(text) :
                    text[i] = "\n" /\ \A j \in 1..(i - 1) : text[j] # "\n"
         IN {SubSeq(text, 1, k - 1)} \cup LinesOf(SubSeq(text, k + 1, Len(text)))

IsPrefix(lit, line) ==
    Len(lit) <= Len(line) /\ SubSeq(line, 1, Len(lit)) = lit

\* The line without its leading blanks.
RECURSIVE StripLeft(_)
StripLeft(line) ==
    IF Len(line) > 0 /\ line[1] = " " THEN StripLeft(Tail(line)) ELSE line

\* Some line of the text begins with the directive.
DirectiveLine(text) == \E l \in LinesOf(text) : IsPrefix(Directive, l)

\* The contents of the pool that have such a line.
DirectiveContents ==
    {c \in UNION {ContentsFor(n) : n \in NamePool} : DirectiveLine(c.text)}

\* The files drift wraps in a transaction, and the others.
TxFiles == {n \in FileNames : dir[n] \notin DirectiveContents}
NoTxFiles == {n \in FileNames : dir[n] \in DirectiveContents}

\* The rows of the ledger with this id.
RowCount(id) == Cardinality({i \in 1..Len(ledger) : ledger[i].id = id})

\* The invocations in which apply returned nil for this id.
AppliesReturnedNil(id) == Cardinality({q \in Procs : id \in Range(finished[q])})

Returned(p) == pc[p] \in {"failed", "exited"}

\* The IDs of a set in ascending order.
RECURSIVE Ascending(_)
Ascending(S) ==
    IF S = {} THEN <<>>
    ELSE LET m == CHOOSE x \in S : \A y \in S : x <= y
         IN <<m>> \o Ascending(S \ {m})

IsPrefixSeq(a, b) == Len(a) <= Len(b) /\ SubSeq(b, 1, Len(a)) = a

-----------------------------------------------------------------------------
(* C1. As claimed: for a file without the directive, the ledger holds a row *)
(* for its ID iff the body's effects are committed, and after a failure of  *)
(* claim or of the body neither a row for that ID nor an effect remains.    *)
C1_AsClaimed ==
    /\ \A n \in TxFiles : (RowCount(FileID(n)) > 0) <=> (effects[FileID(n)] > 0)
    /\ \A p \in Procs :
        (Returned(p) /\ err[p] \in {"claim", "run"} /\ Cur(p).Name \in TxFiles)
            => RowCount(Cur(p).ID) = 0 /\ effects[Cur(p).ID] = 0

(* C1, amended. For a file without the directive, claim, body and commit    *)
(* are one transaction: in every state the ledger rows for its ID and the   *)
(* committed runs of its body are equally many, and both equal the number   *)
(* of applies of it that returned nil. A failed apply leaves no row and no  *)
(* effect of its own; a row another invocation committed stays.             *)
C1_AtomicApply ==
    \A n \in TxFiles :
        /\ RowCount(FileID(n)) = effects[FileID(n)]
        /\ effects[FileID(n)] = AppliesReturnedNil(FileID(n))

\* The body of a file failed after its claim was inserted, and an earlier
\* transactional migration is committed.
C1_Witness ==
    \E p \in Procs :
        /\ Returned(p) /\ err[p] = "run"
        /\ Len(tx[p].rows) = 1
        /\ \E n \in TxFiles : RowCount(FileID(n)) = 1

-----------------------------------------------------------------------------
(* C2. Migrate stops at the first failing migration: it returns the error   *)
(* of apply, the failed migration m is the last one attempted and has the   *)
(* greatest ID attempted, what was committed before it stays committed, and *)
(* Migrate returns nil only if every pending migration up to the ceiling    *)
(* was applied and committed.                                               *)
PendingFor(p) ==
    {n \in FileNames :
        /\ FileID(n) \notin {records[p][i].id : i \in 1..Len(records[p])}
        /\ \A u \in upto[p] : FileID(n) <= u}

InPlace(n) ==
    /\ effects[FileID(n)] >= 1
    /\ n \in TxFiles => RowCount(FileID(n)) >= 1

C2_StopsAtFirstFailure ==
    \A p \in Procs :
        /\ (Returned(p) /\ attempted[p] # <<>>) =>
              LET m == attempted[p][Len(attempted[p])] IN
              /\ err[p] \in {"claim", "run", "context canceled"}
              /\ m \notin Range(finished[p])
              /\ \A i \in 1..Len(attempted[p]) : attempted[p][i] <= m
              /\ Len(finished[p]) = Len(attempted[p]) - 1
              /\ \A n \in FileNames : FileID(n) \in Range(finished[p]) => InPlace(n)
        /\ pc[p] = "done" =>
              /\ err[p] = None
              /\ \A n \in PendingFor(p) :
                    FileID(n) \in Range(finished[p]) /\ InPlace(n)

\* A body failed after an earlier migration of the invocation was committed
\* and with a later pending migration left, which is never attempted.
C2_Witness ==
    \E p \in Procs :
        /\ Returned(p) /\ err[p] = "run"
        /\ Len(finished[p]) >= 1
        /\ idx[p] < Len(needed[p])
        /\ upto[p] = {}

-----------------------------------------------------------------------------
(* C3. Within one invocation the migrations are applied one at a time in    *)
(* strictly ascending ID order: at most one apply is in flight, and when an *)
(* apply begins every apply begun before it has returned nil.               *)
C3_OneAtATimeAscending ==
    \A p \in Procs :
        /\ \A i, j \in 1..Len(attempted[p]) :
                i < j => attempted[p][i] < attempted[p][j]
        /\ Cardinality(inflight[p]) <= 1
        /\ \A i \in 1..(Len(attempted[p]) - 1) :
                /\ attempted[p][i] \in Range(finished[p])
                /\ attempted[p][i] \notin inflight[p]
        /\ tx[p].state = "open" => inflight[p] = {attempted[p][Len(attempted[p])]}

\* 2-c.sql and 10-d.sql, which the directory lists in the other order, were
\* applied in one invocation.
C3_Witness ==
    \E p \in Procs :
        /\ FileID(NameC) \in Range(finished[p])
        /\ FileID(NameD) \in inflight[p]

-----------------------------------------------------------------------------
(* C4. The migrations an invocation attempts are the available files whose  *)
(* ID is not in the ledger as applied() read it and not above the ceiling,  *)
(* ascending by ID: all of them when Migrate returns nil, a prefix before.  *)
C4_PendingSequence ==
    \A p \in Procs :
        LET expected == Ascending({FileID(n) : n \in PendingFor(p)}) IN
        /\ pc[p] = "done" => attempted[p] = expected
        /\ IsPrefixSeq(attempted[p], expected)

\* An invocation that met a non-empty ledger and had a ceiling returned nil
\* after applying a migration and skipping one above the ceiling.
C4_Witness ==
    \E p \in Procs :
        /\ pc[p] = "done"
        /\ records[p] # <<>>
        /\ upto[p] # {}
        /\ attempted[p] # <<>>
        /\ \E n \in FileNames : \E u \in upto[p] : FileID(n) > u

-----------------------------------------------------------------------------
(* C5. An invocation q returned nil; p started after that with the same     *)
(* ceiling, and its ledger query and directory listing did not fail.        *)
SecondRun(p, q) ==
    /\ q \in succBefore[p]
    /\ upto[q] = upto[p]
    /\ sawTable[p] # "error"
    /\ err[p] # "list"

\* A file with the directive whose content does not record its own ID.
Unrecorded(id) ==
    \E n \in NoTxFiles : FileID(n) = id /\ dir[n].sql # "init"

(* C5. As claimed: the second invocation applies zero migrations and        *)
(* succeeds.                                                                *)
C5_AsClaimed ==
    \A p, q \in Procs :
        SecondRun(p, q) => attempted[p] = <<>> /\ ~Returned(p)

(* C5, amended. The second invocation applies no migration the ledger       *)
(* records: no transactional one and not the bootstrap migration. It        *)
(* applies again only files with the no-transaction directive whose content *)
(* does not record their ID; without such files in the directory it applies *)
(* zero migrations and succeeds.                                            *)
C5_Idempotent ==
    \A p, q \in Procs :
        SecondRun(p, q) =>
            /\ \A i \in 1..Len(attempted[p]) : Unrecorded(attempted[p][i])
            /\ (\A id \in IDs : ~Unrecorded(id)) =>
                    attempted[p] = <<>> /\ ~Returned(p)

\* A second invocation returned nil without applying anything, after a
\* first one that had applied two migrations.
C5_Witness ==
    \E p, q \in Procs :
        /\ SecondRun(p, q)
        /\ Len(finished[q]) >= 2
        /\ pc[p] = "done"
        /\ attempted[p] = <<>>

-----------------------------------------------------------------------------
(* C6. Under every interleaving of the invocations the ledger never holds   *)
(* two rows with one ID and the body of a transactional migration is        *)
(* committed at most once; an invocation whose claim failed has returned    *)
(* the error and its transaction holds nothing and never commits, and an    *)
(* invocation past its claim holds an ID the ledger does not record.        *)
C6_ClaimedOnce ==
    /\ \A i, j \in 1..Len(ledger) : i < j => ledger[i].id # ledger[j].id
    /\ \A n \in TxFiles : effects[FileID(n)] <= 1
    /\ \A p \in Procs :
        /\ err[p] = "claim" =>
              /\ Returned(p)
              /\ Cur(p).ID \notin Range(finished[p])
              /\ tx[p].rows = <<>> /\ tx[p].body = <<>>
        /\ pc[p] \in {"run", "commit"} => RowCount(Cur(p).ID) = 0

\* The claim of an invocation failed on an ID another invocation had
\* committed after both had read the ledger.
C6_Witness ==
    \E p \in Procs :
        /\ err[p] = "claim"
        /\ RowCount(Cur(p).ID) = 1
        /\ \E q \in Procs \ {p} : Cur(p).ID \in Range(finished[q])

-----------------------------------------------------------------------------
(* C7. If two files of the directory parse to the same ID, discovery fails  *)
(* with the duplicate-ID error and no invocation executes a migration or    *)
(* changes the ledger or the database.                                      *)
DuplicateIDs ==
    \E n, m \in FileNames : n # m /\ FileID(n) = FileID(m)

C7_DuplicateIDStops ==
    DuplicateIDs =>
        /\ available(dir, FALSE).err = "ErrDuplicateID"
        /\ FreshDB \/ BootstrappedDB
        /\ \A p \in Procs :
            /\ pc[p] \in {"idle", "failed"}
            /\ attempted[p] = <<>> /\ txBegun[p] = {} /\ tx[p] = NoTx
            /\ (pc[p] = "failed" /\ sawTable[p] # "error" /\ err[p] # "list")
                  => err[p] = "ErrDuplicateID"

\* 1-a.sql and 01-b.sql are in the directory of a bootstrapped database and
\* an invocation has returned the duplicate-ID error.
C7_Witness ==
    /\ {NameA, NameB} \subseteq DOMAIN dir
    /\ tableExists
    /\ \E p \in Procs : pc[p] = "failed" /\ err[p] = "ErrDuplicateID"

-----------------------------------------------------------------------------
(* C8. A file with the no-transaction directive is executed directly on the *)
(* connection: no transaction is begun and no claim is called for it, and   *)
(* the ledger holds its ID only if its own content recorded it.             *)
C8_NoTxDirect ==
    /\ \A p \in Procs :
        /\ \A n \in NoTxFiles :
              FileID(n) \in Range(attempted[p]) =>
                  FileID(n) \notin txBegun[p] /\ FileID(n) \notin claimCalls[p]
        /\ pc[p] = "direct" => tx[p].state = "none"
    /\ \A n \in NoTxFiles :
        /\ RowCount(FileID(n)) > 0 => dir[n].sql = "init"
        /\ (dir[n].sql = "init" /\ AppliesReturnedNil(FileID(n)) > 0)
              => RowCount(FileID(n)) = 1

\* 01-b.sql, which has the directive and records nothing, was applied with
\* the ledger in place.
C8_Witness ==
    \E p \in Procs :
        /\ NameB \in NoTxFiles
        /\ FileID(NameB) \in Range(finished[p])
        /\ tableExists

-----------------------------------------------------------------------------
(* C9. As claimed: a content is treated as no-transaction exactly when one  *)
(* of its lines, leading whitespace aside, is exactly the directive.        *)
C9_AsClaimed ==
    \A i \in 1..Len(res) :
        res[i] <=> \E l \in LinesOf(arg) : StripLeft(l) = Directive

(* C9, amended. A content is treated as no-transaction exactly when one of  *)
(* its lines begins, at its first character, with the directive: whitespace *)
(* before it prevents the match, and any text may follow it on the line.    *)
C9_DirectiveAtLineStart ==
    \A i \in 1..Len(res) : res[i] <=> DirectiveLine(arg)

\* skipTx accepted a content whose only directive is followed by more text
\* on its line, next to a line that has the directive in its middle.
C9_Witness ==
    /\ res = <<TRUE>>
    /\ Directive \notin LinesOf(arg)
    /\ (<<"x", " ">> \o Directive) \in LinesOf(arg)

-----------------------------------------------------------------------------
(* C10. When the ledger table does not exist the ledger query gives the     *)
(* empty set without error and every available file is pending; any other   *)
(* failure of the query makes Migrate return an error before any migration  *)
(* is applied.                                                              *)
C10_UndefinedTable ==
    \A p \in Procs :
        /\ sawTable[p] = "missing" =>
              /\ err[p] # "could not get applied migrations"
              /\ records[p] = <<>>
              /\ (pc[p] # "failed" \/ attempted[p] # <<>>) =>
                    {needed[p][i].Name : i \in 1..Len(needed[p])} = FileNames
        /\ sawTable[p] = "error" =>
              /\ Returned(p)
              /\ err[p] = "could not get applied migrations"
              /\ attempted[p] = <<>> /\ finished[p] = <<>> /\ txBegun[p] = {}

\* An invocation that found no ledger table has applied the bootstrap
\* migration and a second file.
C10_Witness ==
    \E p \in Procs :
        /\ sawTable[p] = "missing"
        /\ Len(finished[p]) >= 2
        /\ FileID(NameInit) \in Range(finished[p])

-----------------------------------------------------------------------------
(* C11. As claimed: cancellation takes effect only between migrations. An   *)
(* invocation that returned the cancellation error had no migration in      *)
(* flight: its transaction held neither a claimed row nor an executed body. *)
C11_AsClaimed ==
    \A p \in Procs :
        err[p] = "context canceled" => tx[p].rows = <<>> /\ tx[p].body = <<>>

(* C11, amended. Migrate never tests the context itself; every database     *)
(* operation of apply receives it. Once the context of an invocation is     *)
(* cancelled no apply of that invocation returns nil any more: the next     *)
(* operation of a migration in flight (claim, body, commit, direct run)     *)
(* fails with the cancellation error, Migrate returns it, and the           *)
(* transaction of the aborted migration is left uncommitted.                *)
C11_CancelAborts ==
    [][\A p \in Procs :
          ctxDone[p] =>
              /\ finished'[p] = finished[p]
              /\ (pc[p] \in {"claim", "run", "commit", "direct"}
                    /\ pc'[p] # pc[p]) =>
                      /\ pc'[p] = "failed"
                      /\ err'[p] = "context canceled"
                      /\ tx'[p].state \in {"none", "aborted"}
                      /\ tx'[p].rows = tx[p].rows]_vars

\* An invocation was cancelled after the body of a migration had run in its
\* transaction: it returned the cancellation error instead of committing.
C11_Witness ==
    \E p \in Procs :
        /\ err[p] = "context canceled"
        /\ tx[p].state = "aborted"
        /\ Len(tx[p].rows) = 1 /\ Len(tx[p].body) = 1

-----------------------------------------------------------------------------
(* C12. The ledger only grows: every step leaves the rows it holds as they  *)
(* are and appends at most one; a step appends a row exactly when an apply  *)
(* of a transactional migration returns nil, and the row is that            *)
(* migration's (ID, slug); the only other row is the one the bootstrap      *)
(* migration records for itself.                                            *)
C12_LedgerOnlyGrows ==
    [][/\ IsPrefixSeq(ledger, ledger')
       /\ Len(ledger') <= Len(ledger) + 1
       /\ \A p \in Procs :
            finished'[p] # finished[p] =>
                LET f == Cur(p) IN
                IF f.Name \in TxFiles
                THEN ledger' = Append(ledger, Row(f.ID, f.Slug))
                ELSE IF dir[f.Name].sql = "init"
                THEN ledger' = Append(ledger, Row(0, InitSlug))
                ELSE ledger' = ledger
       /\ ledger' # ledger => \E p \in Procs : finished'[p] # finished[p]]_vars

\* Two invocations, one of which failed, have each added a row to the ledger
\* of a bootstrapped database.
C12_Witness ==
    /\ Len(ledger) >= 3
    /\ \A p \in Procs : finished[p] # <<>>
    /\ \E p \in Procs : Returned(p)

-----------------------------------------------------------------------------
(* Vocabulary of the properties of the file commands.                       *)

\* The migration files of a directory, and what their names parse to.
MigrationsOf(d) == {n \in DOMAIN d : reFilenameMatches(n)}

NameID(n) == mustID(SubmatchId(n))

\* The (ID, slug, content) triples discovered in a directory.
Triples(d) == {<<NameID(n), SubmatchSlug(n), d[n]>> : n \in MigrationsOf(d)}

\* The number of decimal digits of n.
RECURSIVE DigitLength(_)
DigitLength(n) == IF n < 10 THEN 1 ELSE 1 + DigitLength(n \div 10)

Started(c, op) == call[c].op = op /\ call[c].pc # "idle"

-----------------------------------------------------------------------------
(* C13. NewFile with an ID equal to the ID of a migration file of the       *)
(* directory it scans fails with the duplicate-ID error and changes         *)
(* nothing in the directory: it creates no file and touches none.           *)
C13_DuplicateIDRejected ==
    \A c \in Callers :
        (/\ Started(c, "new")
         /\ call[c].err # "list"
         /\ \E n \in MigrationsOf(dirAt[c]) : NameID(n) = call[c].chosen)
            => /\ call[c].pc = "error"
               /\ call[c].err = "ErrDuplicateID"
               /\ fsOps[c] = <<>>

\* new --id 10 on a directory of unique IDs that holds 10-d.sql.
C13_Witness ==
    \E c \in Callers :
        /\ Started(c, "new") /\ call[c].id = 10
        /\ call[c].err = "ErrDuplicateID"
        /\ NameD \in DOMAIN dirAt[c]
        /\ ~({NameA, NameB} \subseteq DOMAIN dirAt[c])

-----------------------------------------------------------------------------
(* C14. NewFile never overwrites: it never opens for writing a path that    *)
(* exists at the moment of the write, also when another NewFile created the *)
(* file after this one's scan; every file NewFile writes is one it created. *)
C14_NeverOverwrites ==
    \A c \in Callers :
        Started(c, "new") =>
            \A i \in 1..Len(fsOps[c]) : fsOps[c][i].kind = "create"

-----------------------------------------------------------------------------
(* C15. Renumbering is idempotent: when a Renumber with write on has        *)
(* succeeded, a Renumber that scans the directory as it is then proposes no *)
(* rename, performs no file system operation and succeeds.                  *)
C15_RenumberIdempotent ==
    \A c, e \in Callers :
        (/\ c # e
         /\ Started(c, "renumber") /\ call[c].write /\ call[c].pc = "ok"
         /\ Started(e, "renumber") /\ call[e].err # "list"
         /\ dirAt[e] = dir)
            => /\ call[e].renames = <<>>
               /\ fsOps[e] = <<>>
               /\ call[e].pc = "ok"

\* A Renumber renamed two files; a second one, with write on, scanned the
\* directory it left and found nothing to do.
C15_Witness ==
    \E c, e \in Callers :
        /\ c # e
        /\ Started(c, "renumber") /\ call[c].pc = "ok" /\ Len(fsOps[c]) = 2
        /\ Started(e, "renumber") /\ call[e].write /\ call[e].pc = "ok"
        /\ dirAt[e] = dir

-----------------------------------------------------------------------------
(* C16. Renumber is dry-run by default: with write off it makes no file     *)
(* system change whatever it proposes, and with write on or off it makes    *)
(* none when the raw ID of every file already has the computed width.       *)
WidthOf(d) ==
    IF MigrationsOf(d) = {} THEN 0
    ELSE CHOOSE w \in {DigitLength(NameID(n)) : n \in MigrationsOf(d)} :
            \A n \in MigrationsOf(d) : DigitLength(NameID(n)) <= w

C16_DryRunByDefault ==
    \A c \in Callers :
        Started(c, "renumber") =>
            /\ ~call[c].write => fsOps[c] = <<>> /\ call[c].pc # "renaming"
            /\ (\A n \in MigrationsOf(dirAt[c]) :
                    Len(SubmatchId(n)) = WidthOf(dirAt[c]))
                  => fsOps[c] = <<>> /\ call[c].renames = <<>>
            /\ (\A e \in Callers : fsOps[e] = <<>>) => dir = dirAt[c]

\* A Renumber with write off proposed two renames and returned nil, and the
\* directory is as it was.
C16_Witness ==
    \E c \in Callers :
        /\ Started(c, "renumber") /\ ~call[c].write
        /\ call[c].pc = "ok"
        /\ Len(call[c].renames) = 2
        /\ dir = dirAt[c]

-----------------------------------------------------------------------------
(* C17. When a Renumber with write on has succeeded, the ID prefix of every *)
(* migration file has one width, the shortest that fits every ID of the     *)
(* directory, and the file names sort as strings as their IDs sort as       *)
(* numbers.                                                                 *)
C17_UniformWidth ==
    (\E c \in Callers :
        Started(c, "renumber") /\ call[c].write /\ call[c].pc = "ok")
    => /\ \A n \in MigrationsOf(dir) : Len(SubmatchId(n)) = WidthOf(dir)
       /\ \A n, m \in MigrationsOf(dir) :
            StrLess(n, m) <=> NameID(n) < NameID(m)

\* A Renumber has renamed files of a directory in which 10-d.sql sorted
\* before a file of a smaller ID.
C17_Witness ==
    \E c \in Callers :
        /\ Started(c, "renumber") /\ call[c].write /\ call[c].pc = "ok"
        /\ fsOps[c] # <<>>
        /\ \E n \in MigrationsOf(dirAt[c]) :
              StrLess(NameD, n) /\ NameID(n) < NameID(NameD)
        /\ Cardinality(MigrationsOf(dir)) >= 3

-----------------------------------------------------------------------------
(* C18. Renumber changes file names only: the (ID, slug, content) triples   *)
(* discovered in the directory are the ones its scan found, no file is      *)
(* merged with another or lost, the other files stay, and against any       *)
(* ledger Migrate computes the same pending migrations as before.           *)
Ledgers ==
    { <<>>, <<Row(0, InitSlug)>>, <<Row(0, InitSlug), Row(1, <<"a">>)>>,
      <<Row(2, <<"c">>), Row(10, <<"d">>)>> }

\* What Migrate would apply on this directory with these rows recorded.
PendingOn(d, rows) ==
    LET v == available(d, FALSE)
        n == diff(rows, v.files)
    IN [err |-> v.err,
        files |-> [i \in 1..Len(n) |-> <<n[i].ID, n[i].Slug, n[i].Content>>]]

C18_RenamesOnly ==
    \A c \in Callers :
        Started(c, "renumber") =>
            /\ Triples(dir) = Triples(dirAt[c])
            /\ Cardinality(DOMAIN dir) = Cardinality(DOMAIN dirAt[c])
            /\ Cardinality(MigrationsOf(dir)) = Cardinality(Triples(dir))
                  \/ call[c].err = "ErrDuplicateID"
            /\ DOMAIN dir \ MigrationsOf(dir)
                  = DOMAIN dirAt[c] \ MigrationsOf(dirAt[c])
            /\ \A rows \in Ledgers : PendingOn(dir, rows) = PendingOn(dirAt[c], rows)

\* A Renumber renamed a file next to a file that is not a migration and
\* one that already had the width.
C18_Witness ==
    \E c \in Callers :
        /\ Started(c, "renumber") /\ call[c].pc = "ok"
        /\ Len(fsOps[c]) = 1
        /\ {NameNotes, NameD} \subseteq DOMAIN dir

-----------------------------------------------------------------------------
(* C19. As claimed: for every ID, every slug and every width that is at     *)
(* least the number of digits of the ID, the file name filename builds      *)
(* matches the pattern and parses to that ID and that slug.                 *)
RoundTrip(name, id, slug) ==
    /\ reFilenameMatches(name)
    /\ mustID(SubmatchId(name)) = id
    /\ SubmatchSlug(name) = slug

HasLineFeed(slug) == \E k \in 1..Len(slug) : slug[k] = "\n"

-----------------------------------------------------------------------------
(* C20. Setup never overwrites the bootstrap migration: when 0-init.sql     *)
(* exists in the directory Setup fails and makes no file system change, a   *)
(* Setup that succeeded created the file, and of the Setup invocations on   *)
(* one directory at most one succeeds.                                      *)
C20_SetupNeverOverwrites ==
    /\ \A c \in Callers :
        Started(c, "setup") =>
            /\ NameInit \in DOMAIN dirAt[c] =>
                  call[c].pc = "error" /\ fsOps[c] = <<>>
            /\ \A i \in 1..Len(fsOps[c]) :
                  fsOps[c][i].kind = "create" /\ fsOps[c][i].to = NameInit
            /\ call[c].pc = "ok" =>
                  Len(fsOps[c]) = 1 /\ NameInit \in DOMAIN dir
    /\ Cardinality({c \in Callers : Started(c, "setup") /\ call[c].pc = "ok"}) <= 1

\* Of two Setup invocations on a directory without 0-init.sql one has
\* succeeded and the other failed on the file the first created.
C20_Witness ==
    \E c, e \in Callers :
        /\ Started(c, "setup") /\ call[c].pc = "ok"
        /\ Started(e, "setup") /\ call[e].err = "open"
        /\ NameInit \in DOMAIN dirAt[e] /\ NameInit \notin DOMAIN dirAt[c]
        /\ dir[NameInit] = initContent

-----------------------------------------------------------------------------
(* C21. Every Migrate invocation that was started terminates: it returns    *)
(* nil or the first error (from some point on every invocation either was   *)
(* never started or has returned). It calls apply at most once for each     *)
(* file, and once it has returned it attempts nothing more: a failed        *)
(* migration is never retried.                                              *)
Terminated(p) == pc[p] \in {"done", "failed", "exited"}

C21_TerminatesNoRetry ==
    /\ <>[](\A p \in Procs : pc[p] = "idle" \/ Terminated(p))
    /\ [][\A p \in Procs :
            /\ attempted'[p] # attempted[p] =>
                  \E id \in IDs \ Range(attempted[p]) :
                      attempted'[p] = Append(attempted[p], id)
            /\ Terminated(p) =>
                  /\ Terminated(p)'
                  /\ attempted'[p] = attempted[p]
                  /\ finished'[p] = finished[p]
                  /\ err'[p] = err[p]]_vars

\* An invocation returned the error of a failed body after committing an
\* earlier migration, with a later file pending that it never attempts.
C21_Witness ==
    \E p \in Procs :
        /\ pc[p] = "exited" /\ err[p] = "run"
        /\ Len(finished[p]) >= 1
        /\ Len(attempted[p]) < Len(needed[p])

-----------------------------------------------------------------------------
(* C22. As claimed: whenever NewFile has returned an error, whatever the    *)
(* cause, the directory holds no file that it did not hold before the call  *)
(* (no other command having changed the directory).                         *)
OnlyChangedBy(c) == \A e \in Callers \ {c} : fsOps[e] = <<>>

C22_AsClaimed ==
    \A c \in Callers :
        (Started(c, "new") /\ call[c].pc = "error" /\ OnlyChangedBy(c))
            => DOMAIN dir \subseteq DOMAIN dirAt[c]

(* C22, amended. When NewFile returns the error of the directory scan, the  *)
(* duplicate-ID error or the error of the open, it has made no file system  *)
(* change and the directory holds no new file. When the execution of the    *)
(* template fails, the file NewFile had opened (created, or truncated)      *)
(* stays in the directory with what was written of it.                      *)
C22_ErrorBeforeOpenLeavesNoFile ==
    \A c \in Callers :
        (Started(c, "new") /\ call[c].pc = "error") =>
            /\ call[c].err \in {"list", "ErrDuplicateID", "open", "template"}
            /\ call[c].err # "template" =>
                  /\ fsOps[c] = <<>>
                  /\ OnlyChangedBy(c) => dir = dirAt[c]
            /\ call[c].err = "template" =>
                  /\ Len(fsOps[c]) = 1 /\ fsOps[c][1].to = call[c].name
                  /\ call[c].name \in DOMAIN dir
                  /\ OnlyChangedBy(c) =>
                        /\ dir[call[c].name] = PartialContent
                        /\ DOMAIN dir = DOMAIN dirAt[c] \cup {call[c].name}

\* The template of a new call failed on a file the call had created next
\* to 10-d.sql.
C22_Witness ==
    \E c \in Callers :
        /\ Started(c, "new") /\ call[c].err = "template"
        /\ OnlyChangedBy(c)
        /\ call[c].name \notin DOMAIN dirAt[c]
        /\ NameD \in DOMAIN dirAt[c]
        /\ dir[call[c].name] = PartialContent

-----------------------------------------------------------------------------
(* C23. As claimed: every file a successful NewFile creates is found by the *)
(* next scan of the directory with the ID NewFile chose and the normalized  *)
(* slug.                                                                    *)
\* The slugs of the pool with every run of separators as one underscore.
NormalSlug ==
    [s \in GivenSlugs |->
        IF s = <<"a", " ", "-", "b">> THEN <<"a", "_", "b">> ELSE s]

\* The scan of the directory d lists the file of the call with its ID and
\* normalized slug.
FoundIn(d, c) ==
    LET v == available(d, FALSE) IN
    /\ v.err = None
    /\ \E i \in 1..Len(v.files) :
        /\ v.files[i].Name = call[c].name
        /\ v.files[i].ID = call[c].chosen
        /\ v.files[i].Slug = NormalSlug[call[c].slug]

\* NewFile returns nil in this step.
Succeeds(c) ==
    call[c].op = "new" /\ call[c].pc = "scanned" /\ call'[c].pc = "ok"

C23_AsClaimed ==
    [][\A c \in Callers : Succeeds(c) => FoundIn(dir', c)]_vars

(* C23, amended. When NewFile returns nil the file is in the directory      *)
(* under a name that matches the pattern and parses to the ID NewFile chose *)
(* and the normalized slug; an explicit ID (0 included) is used as given    *)
(* and only the unset ID is replaced by the clock. The next scan finds the  *)
(* file so, unless another command created a file with the same ID between  *)
(* this call's scan and its write: then the scan fails with the             *)
(* duplicate-ID error.                                                      *)
C23_CreatedFileParses ==
    [][\A c \in Callers :
          Succeeds(c) =>
              LET n == call[c].name IN
              /\ n \in DOMAIN dir'
              /\ RoundTrip(n, call[c].chosen, NormalSlug[call[c].slug])
              /\ call[c].id # -1 => call[c].chosen = call[c].id
              /\ call[c].id = -1 =>
                    call[c].chosen = call[c].ts /\ call[c].ts \in Times
              /\ FoundIn(dir', c)
                  \/ /\ available(dir', FALSE).err = "ErrDuplicateID"
                     /\ \E m \in MigrationsOf(dir) \ (DOMAIN dirAt[c] \cup {n}) :
                          NameID(m) = call[c].chosen]_vars

\* new --id 0 with a slug of several separators succeeded on a directory
\* that holds files with two-digit IDs, and the scan finds 00-a_b.sql.
C23_Witness ==
    \E c \in Callers :
        /\ Started(c, "new") /\ call[c].pc = "ok"
        /\ call[c].id = 0
        /\ call[c].name = <<"0", "0", "-", "a", "_", "b", ".", "s", "q", "l">>
        /\ FoundIn(dir, c)

=============================================================================
